---- MODULE Spec2Model ----
(***************************************************************************)
(* Boardloader (core/embed/boardloader/main.c): the first stage of the     *)
(* boot chain.  One run of main() is modelled as a sequential state        *)
(* machine: option-byte configuration, detection of a bootloader image on  *)
(* the SD card, the abortable countdown and the copy into flash, and the   *)
(* verification of the resident bootloader followed by the hand-off.       *)
(* Collaborators outside main.c (flash driver, SD card driver, image       *)
(* verification, the fatal-halt primitive) are modelled at their interface *)
(* with every outcome they can report.                                     *)
(***************************************************************************)
EXTENDS Integers, Sequences, FiniteSets, TLC

VARIABLES
  pc,          \* position of the run in main / copy_sdcard / check_sdcard
  csRet,       \* who called check_sdcard: "main" or "countdown"
  layout,      \* the flash region map the binary was built with
  model,       \* the hardware model the binary was built for
  resident,    \* index of the image in the bootloader region at reset (0: blank)
  sectorState, \* per flash sector: "orig" or "erased"
  blWords,     \* words of the bootloader region
  locked,      \* flash write lock
  card,        \* the SD card currently in the slot
  sdPower,     \* SD card powered
  sdbuf,       \* sdcard_buf (SRAM read buffer), as words
  readStatus,  \* read_status of check_sdcard
  csResult,    \* value returned by the last check_sdcard
  codelen,     \* copy_sdcard's codelen
  tick,        \* copy_sdcard's countdown variable i
  blk,         \* copy loop block index i
  widx,        \* copy loop word index j
  hdr,         \* main's image_header hdr (after load_image_header)
  status,      \* main's return value (-1: has not returned)
  copyRet,     \* copy_sdcard's return value: "none", "sectrue", "secfalse"
  diag,        \* message of the fatal halt ("" : none)
  jumpTarget,  \* argument of jump_to (-1: not called)
  flashLog,    \* flash driver calls of the run, in order
  eraseCalls,  \* sector lists passed to flash_erase_sectors, in order
  hist         \* counters and flags of the run's history

vars == << pc, csRet, layout, resident, sectorState, blWords, locked, card,
           sdPower, sdbuf, readStatus, csResult, codelen, tick, blk, widx, hdr,
           status, copyRet, diag, jumpTarget, flashLog, eraseCalls, hist,
           model >>

----------------------------------------------------------------------------
(* Sizes.  The byte sizes of image.h and sdcard.h are scaled down; their   *)
(* ratios to the word size are the bounds of the model.                    *)

WordSize == 4
WordsPerBlock == 2
HeaderBlocks == 2
MaxCodeBlocks == 2

SDCARD_BLOCK_SIZE == WordsPerBlock * WordSize
IMAGE_HEADER_SIZE == HeaderBlocks * SDCARD_BLOCK_SIZE
BOOTLOADER_IMAGE_MAXSIZE == IMAGE_HEADER_SIZE + MaxCodeBlocks * SDCARD_BLOCK_SIZE
BOOTLOADER_IMAGE_MAGIC == "TRZB"
\* 0x08020000
BOOTLOADER_START == 128 * 1024 * 1024 + 128 * 1024
MinCapacity == 1024 * 1024
CountdownStart == 10

HeaderWords == IMAGE_HEADER_SIZE \div WordSize
RegionWords == BOOTLOADER_IMAGE_MAXSIZE \div WordSize

----------------------------------------------------------------------------
(* Keys and threshold.                                                     *)

PRODUCTION == FALSE
\* the builds of main.c: -DTREZOR_MODEL_T or -DTREZOR_MODEL_R
Models == { "TREZOR_MODEL_T", "TREZOR_MODEL_R" }
TREZOR_MODEL_T == model = "TREZOR_MODEL_T"
TREZOR_MODEL_R == model = "TREZOR_MODEL_R"
BOARDLOADER_KEY_M == 2
BOARDLOADER_KEY_N == 3
BOARDLOADER_KEYS ==
  IF PRODUCTION THEN << "prod0", "prod1", "prod2" >>
                ELSE << "dev0", "dev1", "dev2" >>

Slot(i, s) == [idx |-> i, signer |-> s]

----------------------------------------------------------------------------
(* Flash region map (flash.h).  Sectors 0..23; FLASH_SECTOR_* are the      *)
(* fields of the map the binary was built with.                            *)

Sectors == 0..23
Range(a, b) == { s \in Sectors : a <= s /\ s <= b }

BuildLayout ==
  [ own |-> {0, 1, 2}, storage1 |-> 4, storage2 |-> 16, bootloader |-> 5,
    fwStart |-> 6, fwEnd |-> 11, unusedStart |-> 12, unusedEnd |-> 15,
    extraStart |-> 17, extraEnd |-> 23 ]
SwappedLayout == [ BuildLayout EXCEPT !.storage1 = 16, !.storage2 = 4 ]
Layouts == { BuildLayout, SwappedLayout }

RegionsOf(m) ==
  << m.own, {m.storage1}, {m.storage2}, {m.bootloader},
     Range(m.fwStart, m.fwEnd), Range(m.unusedStart, m.unusedEnd),
     Range(m.extraStart, m.extraEnd) >>
ValidLayout(m) ==
  /\ m.own # {} /\ m.own \subseteq Sectors
  /\ { m.storage1, m.storage2, m.bootloader } \subseteq Sectors
  /\ m.fwStart <= m.fwEnd /\ m.unusedStart <= m.unusedEnd
  /\ m.extraStart <= m.extraEnd
  /\ { m.fwStart, m.fwEnd, m.unusedStart, m.unusedEnd, m.extraStart,
       m.extraEnd } \subseteq Sectors
  /\ \A a, b \in 1..7 : a # b => RegionsOf(m)[a] \cap RegionsOf(m)[b] = {}

FLASH_SECTOR_STORAGE_1 == layout.storage1
FLASH_SECTOR_STORAGE_2 == layout.storage2
FLASH_SECTOR_BOOTLOADER == layout.bootloader
FLASH_SECTOR_FIRMWARE_START == layout.fwStart
FLASH_SECTOR_FIRMWARE_END == layout.fwEnd
FLASH_SECTOR_UNUSED_START == layout.unusedStart
FLASH_SECTOR_UNUSED_END == layout.unusedEnd
FLASH_SECTOR_FIRMWARE_EXTRA_START == layout.extraStart
FLASH_SECTOR_FIRMWARE_EXTRA_END == layout.extraEnd
OwnSectors == layout.own
STORAGE_SECTORS == << FLASH_SECTOR_STORAGE_1, FLASH_SECTOR_STORAGE_2 >>

SeqRange(s) == { s[k] : k \in 1..Len(s) }
----------------------------------------------------------------------------
(* Images.  A header carries the magic, the length fields, the signature   *)
(* slots and the hash of the code; an image is a header and its code.      *)

Header(mg, hl, cl, sg, hs) ==
  [magic |-> mg, hdrlen |-> hl, codelen |-> cl, sigs |-> sg, hash |-> hs]
Image(mg, hl, cl, sg, hs, cd) ==
  [magic |-> mg, hdrlen |-> hl, codelen |-> cl, sigs |-> sg, hash |-> hs,
   code |-> cd]
HeaderOf(img) ==
  Header(img.magic, img.hdrlen, img.codelen, img.sigs, img.hash)
GarbageHeader == Header("none", 0, 0, << >>, "none")

K(i) == BOARDLOADER_KEYS[i + 1]
TwoSigs == << Slot(0, K(0)), Slot(1, K(1)) >>
ThreeSigs == << Slot(2, K(2)), Slot(0, K(0)), Slot(1, K(1)) >>
OneSig == << Slot(0, K(0)), Slot(1, "other") >>
DupSigs == << Slot(0, K(0)), Slot(0, K(0)) >>
OneBlock == SDCARD_BLOCK_SIZE
MaxCode == MaxCodeBlocks * SDCARD_BLOCK_SIZE

\* the images a flash region or a card can hold in the model
Images ==
  << Image("TRZB", IMAGE_HEADER_SIZE, OneBlock, TwoSigs, "A", "A"),
     Image("TRZB", IMAGE_HEADER_SIZE, MaxCode, ThreeSigs, "B", "B"),
     Image("TRZB", IMAGE_HEADER_SIZE, OneBlock, TwoSigs, "A", "X"),
     Image("TRZF", IMAGE_HEADER_SIZE, OneBlock, TwoSigs, "A", "A"),
     Image("TRZB", IMAGE_HEADER_SIZE, OneBlock, OneSig, "A", "A"),
     Image("TRZB", IMAGE_HEADER_SIZE, OneBlock, DupSigs, "A", "A"),
     Image("TRZB", IMAGE_HEADER_SIZE, MaxCode + SDCARD_BLOCK_SIZE, TwoSigs,
           "C", "C"),
     Image("TRZB", IMAGE_HEADER_SIZE, OneBlock + WordSize, TwoSigs, "D", "D"),
     Image("TRZB", IMAGE_HEADER_SIZE, 0, TwoSigs, "empty", "empty") >>
ImageIds == 1..Len(Images)

NoImage == Image("none", 0, 0, << >>, "none", "none")
ImageAt(i) == IF i \in ImageIds THEN Images[i] ELSE NoImage

\* a 32-bit word: word k of image src; zeroed RAM and erased flash hold no image
Word(img, k) == [src |-> img, k |-> k]
ZeroWord == Word(Image("zero", 0, 0, << >>, "none", "none"), 0)
ErasedWord == Word(Image("erased", 0, 0, << >>, "none", "none"), 0)
CeilDiv(a, b) == (a + b - 1) \div b
ImageWordCount(img) == CeilDiv(img.hdrlen + img.codelen, WordSize)

\* the bootloader region holding image img from offset 0
RegionHolding(img) ==
  [ k \in 1..RegionWords |->
      IF img # NoImage /\ k <= ImageWordCount(img) THEN Word(img, k - 1)
                                                     ELSE ErasedWord ]
ErasedRegion == [ k \in 1..RegionWords |-> ErasedWord ]

\* SD cards: absent, or a capacity and the image stored from block 0
NoCard == [present |-> FALSE, cap |-> 0, img |-> 0]
Cards ==
  { NoCard } \cup
  { [present |-> TRUE, cap |-> MinCapacity, img |-> i] : i \in ImageIds } \cup
  { [present |-> TRUE, cap |-> MinCapacity - 1, img |-> 1] }
CardBlocks(c, b, n) ==
  [ k \in 1..(n * WordsPerBlock) |->
      Word(ImageAt(c.img), b * WordsPerBlock + k - 1) ]
ZeroWords(n) == [ k \in 1..n |-> ZeroWord ]

----------------------------------------------------------------------------
(* Image verification (image.c).                                           *)

\* the image_header found at the start of `data`
ParseHeader(data) ==
  IF /\ Len(data) >= HeaderWords
     /\ \A k \in 1..HeaderWords : data[k] = Word(data[1].src, k - 1)
  THEN HeaderOf(data[1].src)
  ELSE GarbageHeader

\* number of slots that verify under a key index not counted before
RECURSIVE CountValid(_, _, _, _, _)
CountValid(sigs, k, seen, n, keys) ==
  IF k > Len(sigs) THEN 0
  ELSE LET s == sigs[k]
           good == /\ s.idx < n
                   /\ s.idx \notin seen
                   /\ keys[s.idx + 1] = s.signer
       IN  IF good THEN 1 + CountValid(sigs, k + 1, seen \cup {s.idx}, n, keys)
                   ELSE CountValid(sigs, k + 1, seen, n, keys)

MultisigVerify(sigs, m, n, keys) ==
  /\ m >= 1 /\ n >= 1 /\ m <= n
  /\ CountValid(sigs, 1, {}, n, keys) >= m

load_image_header(h, magic, maxsize, m, n, keys) ==
  /\ h.magic = magic
  /\ h.hdrlen = IMAGE_HEADER_SIZE
  /\ h.hdrlen + h.codelen <= maxsize
  /\ MultisigVerify(h.sigs, m, n, keys)

\* the hash of the code found after the header in `words`
CodeHashed(h, words) ==
  LET first == HeaderWords + 1
      last == HeaderWords + CeilDiv(h.codelen, WordSize)
  IN  IF h.codelen = 0 THEN "empty"
      ELSE IF /\ last <= Len(words)
              /\ words[first].src.codelen = h.codelen
              /\ \A k \in first..last : words[k] = Word(words[first].src, k - 1)
      THEN words[first].src.code
      ELSE "garbage"

check_image_contents(h, words) == CodeHashed(h, words) = h.hash

\* load_image_header as the boardloader calls it (both call sites)
BoardloaderLoadHeader(h) ==
  load_image_header(h, BOOTLOADER_IMAGE_MAGIC, BOOTLOADER_IMAGE_MAXSIZE,
                    BOARDLOADER_KEY_M, BOARDLOADER_KEY_N, BOARDLOADER_KEYS)
\* main's load_image_header on the words at BOOTLOADER_START
ResidentHeaderOk(words) == BoardloaderLoadHeader(ParseHeader(words))

\* the value check_sdcard returns for the block read into the buffer
CheckSdcardResult(read_status, buf) ==
  IF read_status /\ BoardloaderLoadHeader(ParseHeader(buf))
  THEN ParseHeader(buf).codelen
  ELSE 0

----------------------------------------------------------------------------
(* Flash driver (flash.c) at its interface.                                *)

\* sectors[1..n] erased; an erased bootloader sector reads as blank words
EraseEffect(sectors, n) ==
  LET done == { sectors[k] : k \in 1..n }
  IN  /\ sectorState' = [ s \in Sectors |->
                            IF s \in done THEN "erased" ELSE sectorState[s] ]
      /\ blWords' = IF FLASH_SECTOR_BOOTLOADER \in done THEN ErasedRegion
                                                        ELSE blWords

\* a word write is accepted only unlocked, word-aligned and inside the sector
WriteAccepted(sector, offset) ==
  /\ ~locked
  /\ sector = FLASH_SECTOR_BOOTLOADER
  /\ offset % WordSize = 0
  /\ offset \div WordSize < RegionWords

\* a flash driver call: the operation, the sector (-1: a sector list) and the
\* byte offset (erase: the length of the list)
Ev(op, sector, arg) == [op |-> op, sector |-> sector, arg |-> arg]

----------------------------------------------------------------------------
(* State after reset.                                                      *)

Hist0 ==
  [ nDelay |-> 0, nDetect |-> 0, nFatal |-> 0, nJump |-> 0, nCompat |-> 0,
    bigEndian |-> FALSE, sdInit |-> FALSE,
    dispInit |-> FALSE, dispUsed |-> FALSE, mediaAccess |-> FALSE,
    cfgFailed |-> FALSE, countdownZero |-> FALSE, firstDetect |-> -1,
    hdrCalls |-> 0, contCalls |-> 0, hdrOK |-> FALSE, contOK |-> FALSE,
    failAfterUnlock |-> FALSE, eraseFail |-> FALSE, writeFail |-> FALSE,
    delegated |-> FALSE, failInit |-> FALSE, failLate |-> FALSE,
    afterInit |-> 0, afterLate |-> 0, authHdr |-> GarbageHeader ]

\* bookkeeping of failures and of what is attempted after one: `attempt`
\* is an erase, a word write or an image verification starting now, `fail`
\* is an erase, word write, media read or image verification failing now;
\* failures of the check_sdcard called by main are counted apart
Track(h, attempt, fail) ==
  LET a == IF attempt
           THEN [h EXCEPT !.afterInit = IF h.failInit THEN @ + 1 ELSE @,
                          !.afterLate = IF h.failLate THEN @ + 1 ELSE @]
           ELSE h
  IN  IF ~fail THEN a
      ELSE IF csRet = "main" THEN [a EXCEPT !.failInit = TRUE]
      ELSE [a EXCEPT !.failLate = TRUE]

InitCommon ==
  /\ csRet = "none"
  /\ sectorState = [ s \in Sectors |-> "orig" ]
  /\ locked = TRUE
  /\ card = NoCard
  /\ sdPower = FALSE
  /\ sdbuf = ZeroWords(HeaderWords)
  /\ readStatus = FALSE
  /\ csResult = 0
  /\ codelen = 0
  /\ tick = 0
  /\ blk = 0
  /\ widx = 0
  /\ hdr = GarbageHeader
  /\ status = -1
  /\ copyRet = "none"
  /\ diag = ""
  /\ jumpTarget = -1
  /\ flashLog = << >>
  /\ eraseCalls = << >>
  /\ hist = Hist0

Init ==
  /\ pc = "reset"
  /\ layout \in Layouts
  /\ model \in Models
  /\ resident \in 0..Len(Images)
  /\ blWords = RegionHolding(ImageAt(resident))
  /\ InitCommon

----------------------------------------------------------------------------
(* main(), up to the SD card check.                                        *)

\* reset_flags_reset, periph_init, flash_configure_option_bytes
MainConfigure ==
  /\ pc = "reset"
  /\ \E ok \in BOOLEAN :
       /\ pc' = IF ok THEN "m_display" ELSE "m_wipe"
       /\ hist' = [hist EXCEPT !.cfgFailed = ~ok]
  /\ UNCHANGED << csRet, layout, resident, sectorState, blWords, locked, card,
                  sdPower, sdbuf, readStatus, csResult, codelen, tick, blk,
                  widx, hdr, status, copyRet, diag, jumpTarget, flashLog,
                  eraseCalls, model >>

\* MainWipe with the erase under ensure: a failed erase halts
MainWipe_Ensure ==
  /\ pc = "m_wipe"
  /\ \E n \in 0..Len(STORAGE_SECTORS) :
       /\ EraseEffect(STORAGE_SECTORS, n)
       /\ IF n = Len(STORAGE_SECTORS)
          THEN /\ status' = 2
               /\ pc' = "returned"
               /\ diag' = diag
               /\ hist' = hist
          ELSE /\ status' = status
               /\ pc' = "halted"
               /\ diag' = "flash_erase_sectors(...)"
               /\ hist' = [hist EXCEPT !.nFatal = @ + 1, !.dispUsed = TRUE]
  /\ eraseCalls' = Append(eraseCalls, STORAGE_SECTORS)
  /\ flashLog' = Append(flashLog, Ev("erase", -1, Len(STORAGE_SECTORS)))
  /\ UNCHANGED << csRet, layout, resident, locked, card, sdPower, sdbuf,
                  readStatus, csResult, codelen, tick, blk, widx, hdr, copyRet,
                  jumpTarget, model >>

\* option bytes not configured: erase the storage sectors, return 2
MainWipe ==
  /\ pc = "m_wipe"
  /\ \E n \in 0..Len(STORAGE_SECTORS) :
       /\ EraseEffect(STORAGE_SECTORS, n)
       /\ hist' = Track(hist, TRUE, n < Len(STORAGE_SECTORS))
  /\ eraseCalls' = Append(eraseCalls, STORAGE_SECTORS)
  /\ flashLog' = Append(flashLog, Ev("erase", -1, Len(STORAGE_SECTORS)))
  /\ status' = 2
  /\ pc' = "returned"
  /\ UNCHANGED << csRet, layout, resident, locked, card, sdPower, sdbuf,
                  readStatus, csResult, codelen, tick, blk, widx, hdr, copyRet,
                  diag, jumpTarget, model >>

\* clear_otg_hs_memory, display_init, display_clear; in the TREZOR_MODEL_T
\* build sdcard_init and the call of check_sdcard, in the other build
\* straight on to the verification of the resident image
MainDisplayInit ==
  /\ pc = "m_display"
  /\ IF TREZOR_MODEL_T
     THEN /\ hist' = [hist EXCEPT !.dispInit = TRUE, !.dispUsed = TRUE,
                                  !.sdInit = TRUE]
          /\ csRet' = "main"
          /\ pc' = "cs_power_on"
     ELSE /\ hist' = [hist EXCEPT !.dispInit = TRUE, !.dispUsed = TRUE]
          /\ csRet' = csRet
          /\ pc' = "m_load_header"
  /\ UNCHANGED << layout, resident, sectorState, blWords, locked, card,
                  sdPower, sdbuf, readStatus, csResult, codelen, tick, blk,
                  widx, hdr, status, copyRet, diag, jumpTarget, flashLog,
                  eraseCalls, model >>

----------------------------------------------------------------------------
(* check_sdcard().  The card in the slot is whatever the user has put      *)
(* there when the card is powered on.                                      *)

\* sdcard_power_on, then sdcard_get_capacity_in_bytes
CsPowerOn ==
  /\ pc = "cs_power_on"
  /\ \E c \in Cards, ok \in BOOLEAN :
       /\ card' = c
       /\ IF ~(c.present /\ ok)
          THEN /\ sdPower' = FALSE
               /\ csResult' = 0
               /\ pc' = "cs_return"
          ELSE IF c.cap < MinCapacity
          THEN /\ sdPower' = FALSE
               /\ csResult' = 0
               /\ pc' = "cs_return"
          ELSE /\ sdPower' = TRUE
               /\ csResult' = csResult
               /\ pc' = "cs_read"
  /\ hist' = [hist EXCEPT !.nDetect = @ + 1, !.mediaAccess = TRUE,
                          !.countdownZero =
                             @ \/ (csRet = "countdown" /\ pc' = "cs_return")]
  /\ UNCHANGED << csRet, layout, resident, sectorState, blWords, locked,
                  sdbuf, readStatus, codelen, tick, blk, widx, hdr, status,
                  copyRet, diag, jumpTarget, flashLog, eraseCalls, model >>

\* CsRead without sdcard_power_off
CsRead_NoPowerOff ==
  /\ pc = "cs_read"
  /\ \E ok \in BOOLEAN :
       /\ readStatus' = ok
       /\ sdbuf' = IF ok THEN CardBlocks(card, 0, HeaderBlocks)
                         ELSE ZeroWords(HeaderWords)
  /\ pc' = "cs_parse"
  /\ UNCHANGED << csRet, layout, resident, sectorState, blWords, locked, card,
                  csResult, codelen, tick, blk, widx, hdr, status, copyRet,
                  diag, jumpTarget, flashLog, eraseCalls, hist, sdPower,
                  model >>

\* memzero, sdcard_read_blocks of the header, sdcard_power_off
CsRead ==
  /\ pc = "cs_read"
  /\ \E ok \in BOOLEAN :
       /\ readStatus' = ok
       /\ sdbuf' = IF ok THEN CardBlocks(card, 0, HeaderBlocks)
                         ELSE ZeroWords(HeaderWords)
       /\ hist' = Track(hist, FALSE, ~ok)
  /\ sdPower' = FALSE
  /\ pc' = "cs_parse"
  /\ UNCHANGED << csRet, layout, resident, sectorState, blWords, locked, card,
                  csResult, codelen, tick, blk, widx, hdr, status, copyRet,
                  diag, jumpTarget, flashLog, eraseCalls, model >>

\* load_image_header on the buffer; return hdr.codelen or 0
CsParse ==
  /\ pc = "cs_parse"
  /\ csResult' = CheckSdcardResult(readStatus, sdbuf)
  /\ pc' = "cs_return"
  /\ hist' = Track([hist EXCEPT
                       !.countdownZero =
                          @ \/ (csRet = "countdown" /\ csResult' = 0),
                       !.authHdr = IF csResult' # 0 THEN ParseHeader(sdbuf)
                                                    ELSE @],
                    readStatus,
                    readStatus /\ ~BoardloaderLoadHeader(ParseHeader(sdbuf)))
  /\ UNCHANGED << csRet, layout, resident, sectorState, blWords, locked, card,
                  sdPower, sdbuf, readStatus, codelen, tick, blk, widx, hdr,
                  status, copyRet, diag, jumpTarget, flashLog, eraseCalls,
                  model >>

\* MainCheckResult treating a missing candidate as a failed update
MainCheckResult_FailWithoutCard ==
  /\ pc = "cs_return" /\ csRet = "main"
  /\ csRet' = "none"
  /\ IF csResult # 0
     THEN /\ pc' = "cp_tick"
          /\ tick' = CountdownStart
          /\ status' = status
          /\ hist' = [hist EXCEPT !.firstDetect = csResult, !.delegated = TRUE]
     ELSE /\ pc' = "returned"
          /\ tick' = tick
          /\ status' = 3
          /\ hist' = [hist EXCEPT !.firstDetect = csResult]
  /\ UNCHANGED << layout, resident, sectorState, blWords, locked, card,
                  sdPower, sdbuf, readStatus, csResult, codelen, blk, widx,
                  hdr, copyRet, diag, jumpTarget, flashLog, eraseCalls,
                  model >>

\* main: if (check_sdcard()) { return copy_sdcard() ... }; copy_sdcard's
\* banner and the start of its countdown
MainCheckResult ==
  /\ pc = "cs_return" /\ csRet = "main"
  /\ csRet' = "none"
  /\ IF csResult # 0
     THEN /\ pc' = "cp_tick"
          /\ tick' = CountdownStart
          /\ hist' = [hist EXCEPT !.firstDetect = csResult, !.delegated = TRUE]
     ELSE /\ pc' = "m_load_header"
          /\ tick' = tick
          /\ hist' = [hist EXCEPT !.firstDetect = csResult]
  /\ UNCHANGED << layout, resident, sectorState, blWords, locked, card,
                  sdPower, sdbuf, readStatus, csResult, codelen, blk, widx,
                  hdr, status, copyRet, diag, jumpTarget, flashLog, eraseCalls,
                  model >>
----------------------------------------------------------------------------
(* copy_sdcard().                                                          *)
(* ensure(expr, msg) (common.h) continues when expr is sectrue and         *)
(* otherwise enters the fatal halt, which shows expr and msg and never     *)
(* returns: pc = "halted", with nothing of the caller run afterwards.      *)

\* CopySectors starting one sector early, inside the boardloader
CopySectors_FromBoardloader ==
  << 2, FLASH_SECTOR_STORAGE_1, FLASH_SECTOR_STORAGE_2, 3,
     FLASH_SECTOR_BOOTLOADER, FLASH_SECTOR_FIRMWARE_START, 7, 8, 9, 10,
     FLASH_SECTOR_FIRMWARE_END, FLASH_SECTOR_UNUSED_START, 13, 14,
     FLASH_SECTOR_UNUSED_END, FLASH_SECTOR_FIRMWARE_EXTRA_START, 18, 19, 20,
     21, 22, FLASH_SECTOR_FIRMWARE_EXTRA_END >>

\* erase all flash (except boardloader)
CopySectors ==
  << FLASH_SECTOR_STORAGE_1, FLASH_SECTOR_STORAGE_2, 3,
     FLASH_SECTOR_BOOTLOADER, FLASH_SECTOR_FIRMWARE_START, 7, 8, 9, 10,
     FLASH_SECTOR_FIRMWARE_END, FLASH_SECTOR_UNUSED_START, 13, 14,
     FLASH_SECTOR_UNUSED_END, FLASH_SECTOR_FIRMWARE_EXTRA_START, 18, 19, 20,
     21, 22, FLASH_SECTOR_FIRMWARE_EXTRA_END >>

\* a copy loop bound that rounds the image size up to whole blocks
CopyBlocks_RoundUp(len) == CeilDiv(IMAGE_HEADER_SIZE + len, SDCARD_BLOCK_SIZE)

\* number of blocks the copy loop reads and writes
CopyBlocks(len) == (IMAGE_HEADER_SIZE + len) \div SDCARD_BLOCK_SIZE

\* one pass of the countdown loop: print, hal_delay(1000), call check_sdcard
CpTick ==
  /\ pc = "cp_tick" /\ tick >= 0
  /\ hist' = [hist EXCEPT !.nDelay = @ + 1]
  /\ csRet' = "countdown"
  /\ pc' = "cs_power_on"
  /\ UNCHANGED << layout, resident, sectorState, blWords, locked, card,
                  sdPower, sdbuf, readStatus, csResult, codelen, tick, blk,
                  widx, hdr, status, copyRet, diag, jumpTarget, flashLog,
                  eraseCalls, model >>

\* CountdownCheckResult without the test of codelen: the countdown goes on
CountdownCheckResult_NoAbort ==
  /\ pc = "cs_return" /\ csRet = "countdown"
  /\ csRet' = "none"
  /\ codelen' = csResult
  /\ pc' = "cp_tick"
  /\ tick' = tick - 1
  /\ UNCHANGED << layout, resident, sectorState, blWords, locked, card,
                  sdPower, sdbuf, readStatus, csResult, blk, widx, hdr, diag,
                  jumpTarget, flashLog, eraseCalls, copyRet,
                  status, hist, model >>

\* codelen = check_sdcard(); if (0 == codelen) return secfalse (main: 3)
CountdownCheckResult ==
  /\ pc = "cs_return" /\ csRet = "countdown"
  /\ csRet' = "none"
  /\ codelen' = csResult
  /\ IF csResult = 0
     THEN /\ copyRet' = "secfalse"
          /\ status' = 3
          /\ pc' = "returned"
          /\ tick' = tick
          /\ hist' = hist
     ELSE /\ copyRet' = copyRet
          /\ status' = status
          /\ pc' = "cp_tick"
          /\ tick' = tick - 1
          /\ hist' = hist
  /\ UNCHANGED << layout, resident, sectorState, blWords, locked, card,
                  sdPower, sdbuf, readStatus, csResult, blk, widx, hdr, diag,
                  jumpTarget, flashLog, eraseCalls, model >>

\* flash_erase_sectors(sectors, ...); a failure returns secfalse (main: 3)
CpErase ==
  /\ pc = "cp_tick" /\ tick < 0
  /\ \E n \in 0..Len(CopySectors) :
       /\ EraseEffect(CopySectors, n)
       /\ IF n = Len(CopySectors)
          THEN /\ pc' = "cp_unlock"
               /\ copyRet' = copyRet
               /\ status' = status
               /\ hist' = Track(hist, TRUE, FALSE)
          ELSE /\ pc' = "returned"
               /\ copyRet' = "secfalse"
               /\ status' = 3
               /\ hist' = Track([hist EXCEPT !.eraseFail = TRUE], TRUE, TRUE)
  /\ eraseCalls' = Append(eraseCalls, CopySectors)
  /\ flashLog' = Append(flashLog, Ev("erase", -1, Len(CopySectors)))
  /\ UNCHANGED << csRet, layout, resident, locked, card, sdPower, sdbuf,
                  readStatus, csResult, codelen, tick, blk, widx, hdr, diag,
                  jumpTarget, model >>

\* copy_sdcard without the flash_unlock_write call before the copy loop
CpUnlock_Skip ==
  /\ pc = "cp_unlock"
  /\ pc' = "cp_power_on"
  /\ UNCHANGED << csRet, layout, resident, sectorState, blWords, locked, card,
                  sdPower, sdbuf, readStatus, csResult, codelen, tick, blk,
                  widx, hdr, status, copyRet, diag, jumpTarget, flashLog,
                  eraseCalls, hist, model >>

\* ensure(flash_unlock_write(), NULL)
CpUnlock ==
  /\ pc = "cp_unlock"
  /\ \E ok \in BOOLEAN :
       IF ok
       THEN /\ locked' = FALSE
            /\ flashLog' = Append(flashLog, Ev("unlock", -1, 0))
            /\ pc' = "cp_power_on"
            /\ diag' = diag
            /\ hist' = hist
       ELSE /\ locked' = locked
            /\ flashLog' = flashLog
            /\ pc' = "halted"
            /\ diag' = "flash_unlock_write()"
            /\ hist' = [hist EXCEPT !.nFatal = @ + 1]
  /\ UNCHANGED << csRet, layout, resident, sectorState, blWords, card,
                  sdPower, sdbuf, readStatus, csResult, codelen, tick, blk,
                  widx, hdr, status, copyRet, jumpTarget, eraseCalls, model >>

\* ensure(sdcard_power_on(), NULL); memzero(sdcard_buf, SDCARD_BLOCK_SIZE)
CpPowerOn ==
  /\ pc = "cp_power_on"
  /\ \E c \in Cards, ok \in BOOLEAN :
       /\ card' = c
       /\ IF c.present /\ ok
          THEN /\ sdPower' = TRUE
               /\ sdbuf' = [ k \in 1..Len(sdbuf) |->
                               IF k <= WordsPerBlock THEN ZeroWord
                                                     ELSE sdbuf[k] ]
               /\ pc' = "cp_loop"
               /\ diag' = diag
               /\ hist' = [hist EXCEPT !.mediaAccess = TRUE]
          ELSE /\ sdPower' = FALSE
               /\ sdbuf' = sdbuf
               /\ pc' = "halted"
               /\ diag' = "sdcard_power_on()"
               /\ hist' = [hist EXCEPT !.nFatal = @ + 1,
                                       !.failAfterUnlock = TRUE]
  /\ blk' = 0
  /\ UNCHANGED << csRet, layout, resident, sectorState, blWords, locked,
                  readStatus, csResult, codelen, tick, widx, hdr, status,
                  copyRet, jumpTarget, flashLog, eraseCalls, model >>

\* ensure(sdcard_read_blocks(sdcard_buf, i, 1), NULL)
CpReadBlock ==
  /\ pc = "cp_loop" /\ blk < CopyBlocks(codelen)
  /\ \E ok \in BOOLEAN :
       IF ok
       THEN /\ sdbuf' = [ k \in 1..Len(sdbuf) |->
                            IF k <= WordsPerBlock
                            THEN CardBlocks(card, blk, 1)[k]
                            ELSE sdbuf[k] ]
            /\ pc' = "cp_write"
            /\ diag' = diag
            /\ hist' = hist
       ELSE /\ sdbuf' = sdbuf
            /\ pc' = "halted"
            /\ diag' = "sdcard_read_blocks(sdcard_buf, i, 1)"
            /\ hist' = Track([hist EXCEPT !.nFatal = @ + 1,
                                          !.failAfterUnlock = TRUE],
                              FALSE, TRUE)
  /\ widx' = 0
  /\ UNCHANGED << csRet, layout, resident, sectorState, blWords, locked, card,
                  sdPower, readStatus, csResult, codelen, tick, blk, hdr,
                  status, copyRet, jumpTarget, flashLog, eraseCalls, model >>

\* CpWriteWord without ensure: a failed word write is skipped and the copy
\* goes on with the next word
CpWriteWord_BestEffort ==
  /\ pc = "cp_write" /\ widx < SDCARD_BLOCK_SIZE \div WordSize
  /\ LET offset == blk * SDCARD_BLOCK_SIZE + widx * WordSize
     IN  \E ok \in BOOLEAN :
           IF ok /\ WriteAccepted(FLASH_SECTOR_BOOTLOADER, offset)
           THEN /\ blWords' = [blWords EXCEPT
                                 ![offset \div WordSize + 1] = sdbuf[widx + 1]]
                /\ flashLog' = Append(flashLog,
                                      Ev("write", FLASH_SECTOR_BOOTLOADER, offset))
                /\ hist' = Track(hist, TRUE, FALSE)
           ELSE /\ blWords' = blWords
                /\ flashLog' = Append(flashLog,
                                      Ev("write_failed", FLASH_SECTOR_BOOTLOADER,
                                         offset))
                /\ hist' = Track([hist EXCEPT !.writeFail = TRUE], TRUE, TRUE)
  /\ widx' = widx + 1
  /\ blk' = IF widx + 1 < SDCARD_BLOCK_SIZE \div WordSize THEN blk ELSE blk + 1
  /\ pc' = IF widx + 1 < SDCARD_BLOCK_SIZE \div WordSize THEN "cp_write"
                                                          ELSE "cp_loop"
  /\ UNCHANGED << csRet, layout, resident, sectorState, locked, card, sdPower,
                  sdbuf, readStatus, csResult, codelen, tick, hdr, status,
                  copyRet, jumpTarget, eraseCalls, diag, model >>

\* ensure(flash_write_word(FLASH_SECTOR_BOOTLOADER, i * SDCARD_BLOCK_SIZE +
\* j * sizeof(uint32_t), sdcard_buf[j]), NULL), and the loop increments
CpWriteWord ==
  /\ pc = "cp_write" /\ widx < SDCARD_BLOCK_SIZE \div WordSize
  /\ LET offset == blk * SDCARD_BLOCK_SIZE + widx * WordSize
     IN  \E ok \in BOOLEAN :
           IF ok /\ WriteAccepted(FLASH_SECTOR_BOOTLOADER, offset)
           THEN /\ blWords' = [blWords EXCEPT
                                 ![offset \div WordSize + 1] = sdbuf[widx + 1]]
                /\ flashLog' = Append(flashLog, Ev("write", FLASH_SECTOR_BOOTLOADER, offset))
                /\ widx' = widx + 1
                /\ blk' = IF widx + 1 < SDCARD_BLOCK_SIZE \div WordSize
                          THEN blk ELSE blk + 1
                /\ pc' = IF widx + 1 < SDCARD_BLOCK_SIZE \div WordSize
                         THEN "cp_write" ELSE "cp_loop"
                /\ diag' = diag
                /\ hist' = Track(hist, TRUE, FALSE)
           ELSE /\ blWords' = blWords
                /\ flashLog' = Append(flashLog, Ev("write_failed", FLASH_SECTOR_BOOTLOADER, offset))
                /\ widx' = widx
                /\ blk' = blk
                /\ pc' = "halted"
                /\ diag' = "flash_write_word(...)"
                /\ hist' = Track([hist EXCEPT !.nFatal = @ + 1,
                                              !.failAfterUnlock = TRUE,
                                              !.writeFail = TRUE],
                                  TRUE, TRUE)
  /\ UNCHANGED << csRet, layout, resident, sectorState, locked, card, sdPower,
                  sdbuf, readStatus, csResult, codelen, tick, hdr, status,
                  copyRet, jumpTarget, eraseCalls, model >>

\* CpFinish without flash_lock_write
CpFinish_NoLock ==
  /\ pc = "cp_loop" /\ blk >= CopyBlocks(codelen)
  /\ sdPower' = FALSE
  /\ copyRet' = "sectrue"
  /\ status' = 0
  /\ pc' = "returned"
  /\ UNCHANGED << csRet, layout, resident, sectorState, blWords, card, sdbuf,
                  readStatus, csResult, codelen, tick, blk, widx, hdr,
                  jumpTarget, eraseCalls, locked, flashLog,
                  diag, hist, model >>

\* main going on to the resident verification after a successful copy_sdcard
\* instead of returning 0
CpFinish_FallThrough ==
  /\ pc = "cp_loop" /\ blk >= CopyBlocks(codelen)
  /\ sdPower' = FALSE
  /\ locked' = TRUE
  /\ flashLog' = Append(flashLog, Ev("lock", -1, 0))
  /\ copyRet' = "sectrue"
  /\ pc' = "m_load_header"
  /\ UNCHANGED << csRet, layout, resident, sectorState, blWords, card, sdbuf,
                  readStatus, csResult, codelen, tick, blk, widx, hdr, status,
                  diag, jumpTarget, eraseCalls, hist, model >>

\* sdcard_power_off(); ensure(flash_lock_write(), NULL); return sectrue
\* (main: 0)
CpFinish ==
  /\ pc = "cp_loop" /\ blk >= CopyBlocks(codelen)
  /\ sdPower' = FALSE
  /\ \E ok \in BOOLEAN :
       IF ok
       THEN /\ locked' = TRUE
            /\ flashLog' = Append(flashLog, Ev("lock", -1, 0))
            /\ copyRet' = "sectrue"
            /\ status' = 0
            /\ pc' = "returned"
            /\ diag' = diag
            /\ hist' = hist
       ELSE /\ locked' = locked
            /\ flashLog' = flashLog
            /\ copyRet' = copyRet
            /\ status' = status
            /\ pc' = "halted"
            /\ diag' = "flash_lock_write()"
            /\ hist' = [hist EXCEPT !.nFatal = @ + 1,
                                    !.failAfterUnlock = TRUE]
  /\ UNCHANGED << csRet, layout, resident, sectorState, blWords, card, sdbuf,
                  readStatus, csResult, codelen, tick, blk, widx, hdr,
                  jumpTarget, eraseCalls, model >>

----------------------------------------------------------------------------
(* main(): verification of the resident bootloader and the hand-off.       *)

\* MainLoadHeader going to the hand-off once the header is accepted
MainLoadHeader_SigOnly ==
  /\ pc = "m_load_header"
  /\ LET h == ParseHeader(blWords)
         ok == ResidentHeaderOk(blWords)
     IN  /\ hdr' = IF ok THEN h ELSE hdr
         /\ pc' = IF ok THEN "m_compat" ELSE "halted"
         /\ diag' = IF ok THEN diag ELSE "invalid bootloader header"
         /\ hist' = [hist EXCEPT !.hdrCalls = @ + 1, !.hdrOK = ok,
                                 !.nFatal = IF ok THEN @ ELSE @ + 1]
  /\ UNCHANGED << csRet, layout, resident, sectorState, blWords, locked, card,
                  sdPower, sdbuf, readStatus, csResult, codelen, tick, blk,
                  widx, status, copyRet, jumpTarget, flashLog, eraseCalls,
                  model >>

\* MainLoadHeader without ensure: the result of load_image_header is dropped
MainLoadHeader_Unchecked ==
  /\ pc = "m_load_header"
  /\ LET h == ParseHeader(blWords)
         ok == ResidentHeaderOk(blWords)
     IN  /\ hdr' = h
         /\ pc' = "m_check_contents"
         /\ hist' = [hist EXCEPT !.hdrCalls = @ + 1, !.hdrOK = ok]
  /\ UNCHANGED << csRet, layout, resident, sectorState, blWords, locked, card,
                  sdPower, sdbuf, readStatus, csResult, codelen, tick, blk,
                  widx, status, copyRet, jumpTarget, flashLog, eraseCalls, diag,
                  model >>

\* ensure(load_image_header(BOOTLOADER_START, ...), "invalid bootloader header")
MainLoadHeader ==
  /\ pc = "m_load_header"
  /\ LET h == ParseHeader(blWords)
         ok == ResidentHeaderOk(blWords)
     IN  /\ hdr' = IF ok THEN h ELSE hdr
         /\ pc' = IF ok THEN "m_check_contents" ELSE "halted"
         /\ diag' = IF ok THEN diag ELSE "invalid bootloader header"
         /\ hist' = Track([hist EXCEPT !.hdrCalls = @ + 1, !.hdrOK = ok,
                                       !.nFatal = IF ok THEN @ ELSE @ + 1],
                           TRUE, ~ok)
  /\ UNCHANGED << csRet, layout, resident, sectorState, blWords, locked, card,
                  sdPower, sdbuf, readStatus, csResult, codelen, tick, blk,
                  widx, status, copyRet, jumpTarget, flashLog, eraseCalls,
                  model >>

\* ensure(check_image_contents(&hdr, IMAGE_HEADER_SIZE, sectors, 1),
\*        "invalid bootloader hash")
MainCheckContents ==
  /\ pc = "m_check_contents"
  /\ LET ok == check_image_contents(hdr, blWords)
     IN  /\ pc' = IF ok THEN "m_compat" ELSE "halted"
         /\ diag' = IF ok THEN diag ELSE "invalid bootloader hash"
         /\ hist' = Track([hist EXCEPT !.contCalls = @ + 1, !.contOK = ok,
                                       !.nFatal = IF ok THEN @ ELSE @ + 1],
                           TRUE, ~ok)
  /\ UNCHANGED << csRet, layout, resident, sectorState, blWords, locked, card,
                  sdPower, sdbuf, readStatus, csResult, codelen, tick, blk,
                  widx, hdr, status, copyRet, jumpTarget, flashLog, eraseCalls,
                  model >>

\* set_bld_compatible_settings(): display_set_big_endian in the
\* TREZOR_MODEL_T build, nothing in the other
MainCompat ==
  /\ pc = "m_compat"
  /\ hist' = [hist EXCEPT !.nCompat = @ + 1, !.bigEndian = TREZOR_MODEL_T]
  /\ pc' = "m_jump"
  /\ UNCHANGED << csRet, layout, resident, sectorState, blWords, locked, card,
                  sdPower, sdbuf, readStatus, csResult, codelen, tick, blk,
                  widx, hdr, status, copyRet, diag, jumpTarget, flashLog,
                  eraseCalls, model >>

\* MainJump to the start of the region, into the header
MainJump_ToHeader ==
  /\ pc = "m_jump"
  /\ jumpTarget' = BOOTLOADER_START
  /\ hist' = [hist EXCEPT !.nJump = @ + 1]
  /\ pc' = "jumped"
  /\ UNCHANGED << csRet, layout, resident, sectorState, blWords, locked, card,
                  sdPower, sdbuf, readStatus, csResult, codelen, tick, blk,
                  widx, hdr, status, copyRet, diag, flashLog, eraseCalls,
                  model >>

\* jump_to coming back to main, which then runs the trailing return 0
MainJump_Returns ==
  /\ pc = "m_jump"
  /\ jumpTarget' = BOOTLOADER_START + IMAGE_HEADER_SIZE
  /\ hist' = [hist EXCEPT !.nJump = @ + 1]
  /\ status' = 0
  /\ pc' = "returned"
  /\ UNCHANGED << csRet, layout, resident, sectorState, blWords, locked, card,
                  sdPower, sdbuf, readStatus, csResult, codelen, tick, blk,
                  widx, hdr, copyRet, diag, flashLog, eraseCalls, model >>

\* jump_to(BOOTLOADER_START + IMAGE_HEADER_SIZE)
MainJump ==
  /\ pc = "m_jump"
  /\ jumpTarget' = BOOTLOADER_START + IMAGE_HEADER_SIZE
  /\ hist' = [hist EXCEPT !.nJump = @ + 1]
  /\ pc' = "jumped"
  /\ UNCHANGED << csRet, layout, resident, sectorState, blWords, locked, card,
                  sdPower, sdbuf, readStatus, csResult, codelen, tick, blk,
                  widx, hdr, status, copyRet, diag, flashLog, eraseCalls,
                  model >>

----------------------------------------------------------------------------
Next ==
  \/ MainConfigure
  \/ MainWipe
  \/ MainDisplayInit
  \/ CsPowerOn
  \/ CsRead
  \/ CsParse
  \/ MainCheckResult
  \/ CpTick
  \/ CountdownCheckResult
  \/ CpErase
  \/ CpUnlock
  \/ CpPowerOn
  \/ CpReadBlock
  \/ CpWriteWord
  \/ CpFinish
  \/ MainLoadHeader
  \/ MainCheckContents
  \/ MainCompat
  \/ MainJump

Spec == Init /\ [][Next]_vars

\* every collaborator call returns: a run that can take a step takes one
FairSpec == Spec /\ WF_vars(Next)

Terminal == pc \in { "returned", "halted", "jumped" }
----------------------------------------------------------------------------
(* Properties.                                                             *)

\* key indices under which some slot of sigs carries a valid signature
ValidKeyIndices(sigs) ==
  { i \in 0..(BOARDLOADER_KEY_N - 1) :
      \E k \in 1..Len(sigs) :
        sigs[k].idx = i /\ sigs[k].signer = BOARDLOADER_KEYS[i + 1] }

\* correct magic, 2 of 3 valid signatures, matching content hash
SignedAndHashed(img) ==
  /\ img.magic = BOOTLOADER_IMAGE_MAGIC
  /\ Cardinality(ValidKeyIndices(img.sigs)) >= 2
  /\ img.hash = img.code
\* ... and length fields that fit the bootloader region
WellFormed(img) ==
  /\ SignedAndHashed(img)
  /\ img.hdrlen = IMAGE_HEADER_SIZE
  /\ img.hdrlen + img.codelen <= BOOTLOADER_IMAGE_MAXSIZE

FlashUntouched ==
  /\ flashLog = << >>
  /\ eraseCalls = << >>
  /\ locked
  /\ blWords = RegionHolding(ImageAt(resident))
  /\ \A s \in Sectors : sectorState[s] = "orig"

\* C1: the hand-off is performed exactly when load_image_header and
\* check_image_contents both succeeded earlier in the run on the image in
\* the bootloader region, with no flash erase or write in between; the
\* header check alone never leads to the hand-off.
C1_HandoffIffVerified ==
  /\ hist.nJump > 0 =>
       /\ pc = "jumped"
       /\ hist.hdrOK /\ hist.contOK
       /\ hist.hdrCalls = 1 /\ hist.contCalls = 1
       /\ FlashUntouched
       /\ hdr = ParseHeader(blWords)
       /\ ResidentHeaderOk(blWords)
       /\ check_image_contents(hdr, blWords)
  /\ (hist.hdrOK /\ hist.contOK) => pc \in { "m_compat", "m_jump", "jumped" }
  /\ (hist.hdrOK /\ ~hist.contOK) =>
       pc \in { "m_check_contents", "halted" } /\ hist.nJump = 0
C1_Witness ==
  pc = "jumped" /\ hist.hdrOK /\ hist.contOK /\ resident = 2

\* C2: once a detection of the countdown has returned 0, the flow returns
\* secfalse, main returns 3, and no flash erase, unlock or word write has
\* been performed: the flash is as it was at reset.
C2_AbortLeavesFlash ==
  hist.countdownZero =>
    /\ \/ pc = "cs_return" /\ csRet = "countdown" /\ csResult = 0
       \/ pc = "returned" /\ status = 3 /\ copyRet = "secfalse"
    /\ FlashUntouched
    /\ hist.nFatal = 0 /\ hist.nJump = 0
C2_Witness ==
  /\ pc = "returned" /\ status = 3 /\ hist.countdownZero
  /\ tick = 5 /\ card = NoCard /\ FlashUntouched

\* sector indices written as literals in copy_sdcard's list
CopyLiterals == { 3, 7, 8, 9, 10, 13, 14, 18, 19, 20, 21, 22 }
ValidLayouts == { m \in Layouts : ValidLayout(m) }
CopyEraseCalls ==
  IF hist.delegated THEN { eraseCalls[k] : k \in 1..Len(eraseCalls) } ELSE {}

C4_LockedAtExit == Terminal => locked

\* C5: with a valid candidate through the whole countdown and no failing
\* call, the run does one erase of copy_sdcard's list, one unlock, the word
\* writes at offsets 0, 4, 8, ... of the bootloader sector, one lock, and
\* returns 0; the bootloader sector was erased and is no boardloader sector.
CopyLog(len) ==
  << Ev("erase", -1, Len(CopySectors)), Ev("unlock", -1, 0) >>
  \o [ k \in 1..(CopyBlocks(len) * WordsPerBlock) |->
         Ev("write", FLASH_SECTOR_BOOTLOADER, (k - 1) * WordSize) ]
  \o << Ev("lock", -1, 0) >>
C5_UpdateSequence ==
  LET clean == /\ Terminal /\ hist.delegated /\ ~hist.countdownZero
               /\ ~hist.eraseFail /\ hist.nFatal = 0
  IN  (clean \/ status = 0) =>
        /\ pc = "returned" /\ status = 0 /\ copyRet = "sectrue"
        /\ flashLog = CopyLog(codelen)
        /\ eraseCalls = << CopySectors >>
        /\ locked
        /\ \A k \in 1..Len(flashLog) :
             flashLog[k].op = "write" =>
               /\ flashLog[k].sector \in SeqRange(eraseCalls[1])
               /\ flashLog[k].sector \notin OwnSectors
               /\ sectorState[flashLog[k].sector] = "erased"
C5_Witness ==
  /\ status = 0 /\ codelen = MaxCode /\ layout = BuildLayout
  /\ Len(flashLog) = 3 + RegionWords

\* C6 as stated: a run whose resident image has the correct magic, 2 of 3
\* valid signatures and a matching hash ends in exactly one hand-off, to
\* BOOTLOADER_START + IMAGE_HEADER_SIZE.
C6_Original ==
  (Terminal /\ SignedAndHashed(ImageAt(resident))) =>
    /\ pc = "jumped" /\ hist.nJump = 1
    /\ jumpTarget = BOOTLOADER_START + IMAGE_HEADER_SIZE
\* C6, amended: ... and length fields that fit the region, in which
\* flash_configure_option_bytes succeeded and the first check_sdcard
\* returned 0 (or, in the TREZOR_MODEL_R build, which has no check_sdcard,
\* the display was initialised), ends in exactly one hand-off to that
\* address; no run hands off twice or elsewhere.
C6_ValidImageHandoff ==
  /\ ( /\ WellFormed(ImageAt(resident))
       /\ ~hist.cfgFailed
       /\ \/ hist.firstDetect = 0
          \/ TREZOR_MODEL_R /\ hist.dispInit ) =>
       /\ pc \in { "m_load_header", "m_check_contents", "m_compat", "m_jump",
                   "jumped" }
       /\ Terminal => pc = "jumped" /\ hist.nJump = 1
  /\ hist.nJump <= 1
  /\ hist.nJump = 1 <=> pc = "jumped"
  /\ pc = "jumped" <=> jumpTarget = BOOTLOADER_START + IMAGE_HEADER_SIZE
  /\ pc # "jumped" <=> jumpTarget = -1
C6_Witness ==
  /\ pc = "jumped" /\ WellFormed(ImageAt(resident)) /\ hist.nJump = 1
  /\ hist.firstDetect = 0 /\ card.present

\* C7: a failed load_image_header or check_image_contents on the resident
\* image ends the run in the fatal halt with its message; neither
\* set_bld_compatible_settings nor jump_to follows, and after a failed
\* header check_image_contents is never called.
C7_VerificationFailureHalts ==
  /\ (hist.hdrCalls > 0 /\ ~hist.hdrOK) =>
       /\ pc = "halted" /\ diag = "invalid bootloader header"
       /\ hist.nFatal = 1
       /\ hist.contCalls = 0 /\ hist.nCompat = 0 /\ hist.nJump = 0
  /\ (hist.contCalls > 0 /\ ~hist.contOK) =>
       /\ pc = "halted" /\ diag = "invalid bootloader hash"
       /\ hist.nFatal = 1
       /\ hist.nCompat = 0 /\ hist.nJump = 0
  /\ hist.hdrCalls > 0 => hist.hdrOK = ResidentHeaderOk(blWords)
C7_Witness ==
  /\ pc = "halted" /\ diag = "invalid bootloader header"
  /\ ImageAt(resident).magic = "TRZF"

\* C8: after a failed flash_configure_option_bytes main erases the storage
\* sectors once and returns 2 whatever the erase did, with no display, no
\* fatal halt, no SD card access, no verification and no hand-off; 2 is
\* returned on no other path.
C8_ConfigFailure ==
  /\ hist.cfgFailed =>
       /\ \/ pc = "m_wipe" /\ eraseCalls = << >>
          \/ /\ pc = "returned" /\ status = 2
             /\ eraseCalls = << STORAGE_SECTORS >>
       /\ ~hist.dispInit /\ ~hist.dispUsed /\ ~hist.mediaAccess
       /\ hist.nFatal = 0 /\ hist.nDetect = 0
       /\ hist.hdrCalls = 0 /\ hist.contCalls = 0
       /\ hist.nCompat = 0 /\ hist.nJump = 0
  /\ status = 2 => hist.cfgFailed
C8_Witness ==
  /\ pc = "returned" /\ status = 2 /\ hist.cfgFailed
  /\ sectorState[FLASH_SECTOR_STORAGE_1] = "erased"
  /\ sectorState[FLASH_SECTOR_STORAGE_2] = "orig"

\* C9 as stated: a delegated run returns 0 only if the erase and every
\* word write succeeded, and returns 3 after any erase failure or word
\* write failure.
C9_StatusReflectsFlow ==
  /\ status = 0 => ~hist.eraseFail /\ ~hist.writeFail
  /\ (Terminal /\ hist.delegated /\ (hist.eraseFail \/ hist.writeFail)) =>
       pc = "returned" /\ status = 3 /\ copyRet = "secfalse"

\* C11 as stated: before the erase starts, the countdown has made exactly
\* 10 one-second delays and exactly 10 calls of check_sdcard, one per tick.
C11_TenTicks ==
  (hist.delegated /\ Len(eraseCalls) > 0) =>
    /\ hist.nDelay = CountdownStart
    /\ hist.nDetect - 1 = CountdownStart

\* C12 as stated: check_sdcard returns a non-zero code length only for a
\* card image that passes the header check and whose code matches the hash
\* of its header.
C12_DetectionChecksContents ==
  (pc = "cs_return" /\ csResult # 0) =>
    /\ BoardloaderLoadHeader(HeaderOf(ImageAt(card.img)))
    /\ ImageAt(card.img).hash = ImageAt(card.img).code
\* C13: whenever check_sdcard returns, whatever the outcome, the SD card is
\* powered off, and it is already powered off when the header is parsed.
C13_PoweredOffOnReturn ==
  /\ pc = "cs_return" => ~sdPower
  /\ pc = "cs_parse" => ~sdPower
  /\ pc = "cs_read" => sdPower
C13_Witness ==
  /\ pc = "cs_return" /\ csRet = "countdown" /\ csResult # 0
  /\ readStatus /\ ~sdPower
\* C14: when the first check_sdcard, the one main calls, returns 0 (power-on
\* failure, small card, read failure, header rejected), the run goes on to
\* the verification of the resident image: no return, no countdown, no
\* flash erase or write.
CheckSdcardPcs == { "cs_power_on", "cs_read", "cs_parse", "cs_return" }
VerifyPcs ==
  { "m_load_header", "m_check_contents", "m_compat", "m_jump", "jumped",
    "halted" }
C14_NoCandidateFallsThrough ==
  (hist.nDetect = 1 /\ csResult = 0 /\ pc \notin CheckSdcardPcs) =>
    /\ hist.firstDetect = 0 /\ ~hist.delegated
    /\ pc \in VerifyPcs
    /\ pc # "m_load_header" => hist.hdrCalls = 1
    /\ status = -1 /\ copyRet = "none"
    /\ hist.nDelay = 0
    /\ FlashUntouched
C14_Witness ==
  /\ pc = "m_check_contents" /\ hist.firstDetect = 0
  /\ readStatus /\ card.img = 4 /\ hist.hdrCalls = 1
\* C15 as stated: after the first failing erase, word write, media read or
\* image verification of a run, no further erase, word write or
\* verification is attempted, and the run ends in a failure status or the
\* fatal halt.
C15_Original ==
  (hist.failInit \/ hist.failLate) =>
    /\ hist.afterInit = 0 /\ hist.afterLate = 0
    /\ hist.nJump = 0 /\ status # 0
    /\ Terminal => (pc = "halted" \/ status \in { 2, 3 })
\* C15, amended: ... after the first such failure that is not a failure of
\* the check_sdcard called by main (a failed read or a rejected header
\* there means no candidate, and the resident image is verified next), no
\* further erase, word write or verification is attempted and the run ends
\* with status 2 or 3 or in the fatal halt; after a failed word write no
\* later word is written and 0 is never returned.
C15_NoRetry ==
  /\ hist.failLate =>
       /\ hist.afterLate = 0
       /\ pc \in { "cs_parse", "cs_return", "returned", "halted" }
       /\ pc \in { "cs_parse", "cs_return" } => csRet = "countdown"
       /\ hist.nJump = 0 /\ status \in { -1, 2, 3 }
       /\ Terminal => (pc = "halted" \/ status \in { 2, 3 })
  /\ hist.writeFail =>
       /\ pc = "halted" /\ status = -1
       /\ flashLog[Len(flashLog)].op = "write_failed"
       /\ \A k \in 1..(Len(flashLog) - 1) : flashLog[k].op # "write_failed"
C15_Witness ==
  /\ hist.writeFail /\ pc = "halted"
  /\ Len(flashLog) = 5 /\ flashLog[5].op = "write_failed"
\* C16: flash write access is one exclusive bracket: flash_unlock_write
\* succeeds at most once and only on locked flash, every flash_write_word
\* call comes after that unlock and before the flash_lock_write, and no
\* flash_erase_sectors call comes after the unlock.
LogIndices(ops) == { k \in 1..Len(flashLog) : flashLog[k].op \in ops }
C16_SingleBracket ==
  LET unlocks == LogIndices({ "unlock" })
      locks   == LogIndices({ "lock" })
      writes  == LogIndices({ "write", "write_failed" })
      erases  == LogIndices({ "erase" })
  IN  /\ Cardinality(unlocks) <= 1 /\ Cardinality(locks) <= 1
      /\ \A l \in locks : \E u \in unlocks : u < l
      /\ \A w \in writes : /\ \E u \in unlocks : u < w
                           /\ \A l \in locks : w < l
      /\ \A e \in erases : \A u \in unlocks : e < u
      /\ locked <=> (unlocks = {} \/ locks # {})
      /\ pc = "cp_unlock" => (locked /\ unlocks = {})
      /\ pc \in { "cp_power_on", "cp_loop", "cp_write" } => ~locked
C16_Witness ==
  /\ pc = "cp_write" /\ blk = 1 /\ ~locked
  /\ flashLog[Len(flashLog)].op = "write"
\* C17: a run that has called flash_erase_sectors or flash_write_word (the
\* configuration-failure wipe or the media recovery) never verifies the
\* resident image and never calls jump_to, also when the recovery succeeds:
\* it is in copy_sdcard, has returned 0, 2 or 3, or has halted.
CopyPcs == { "cp_unlock", "cp_power_on", "cp_loop", "cp_write" }
C17_MutationExcludesHandoff ==
  (flashLog # << >> \/ eraseCalls # << >>) =>
    /\ hist.nJump = 0 /\ jumpTarget = -1 /\ hist.nCompat = 0
    /\ hist.hdrCalls = 0 /\ hist.contCalls = 0
    /\ pc \in CopyPcs \cup { "returned", "halted" }
    /\ pc = "returned" => status \in { 0, 2, 3 }
    /\ pc = "halted" => (hist.delegated /\ status = -1)
C17_Witness ==
  /\ pc = "returned" /\ status = 0 /\ hist.delegated
  /\ ResidentHeaderOk(blWords) /\ hist.hdrCalls = 0 /\ hist.nJump = 0
\* C18: after a copy that returned 0, the header at the start of the
\* bootloader region is the header that passed load_image_header in the last
\* check_sdcard of the countdown, and the number of bytes written is the one
\* the loop derives from that header's code length.
C18_WrittenIsAuthenticated ==
  status = 0 =>
    /\ BoardloaderLoadHeader(hist.authHdr)
    /\ ParseHeader(blWords) = hist.authHdr
    /\ Cardinality(LogIndices({ "write" })) * WordSize
         = CopyBlocks(hist.authHdr.codelen) * SDCARD_BLOCK_SIZE
\* C19: the flash_write_word calls of the copy loop go to the bootloader
\* sector at byte offsets 0, 4, 8, ... in that order, each once; they stay
\* within, and after a copy that returned 0 cover exactly, the first
\* floor((IMAGE_HEADER_SIZE + codelen) / SDCARD_BLOCK_SIZE) * SDCARD_BLOCK_SIZE
\* bytes; every offset is below BOOTLOADER_IMAGE_MAXSIZE; and the word
\* written at an offset is the word at that offset of the media block
\* offset \div SDCARD_BLOCK_SIZE.
WholeBlockBytes(len) ==
  (IMAGE_HEADER_SIZE + len) - ((IMAGE_HEADER_SIZE + len) % SDCARD_BLOCK_SIZE)
WriteCalls ==
  SelectSeq(flashLog, LAMBDA e : e.op \in { "write", "write_failed" })
C19_CopyLoopOffsets ==
  /\ \A k \in 1..Len(WriteCalls) :
       /\ WriteCalls[k].sector = FLASH_SECTOR_BOOTLOADER
       /\ WriteCalls[k].arg = (k - 1) * WordSize
       /\ WriteCalls[k].arg < BOOTLOADER_IMAGE_MAXSIZE
       /\ WriteCalls[k].op = "write" =>
            blWords[k] = CardBlocks(card, (k - 1) \div WordsPerBlock, 1)
                                   [((k - 1) % WordsPerBlock) + 1]
  /\ Len(WriteCalls) * WordSize <= WholeBlockBytes(codelen)
  /\ status = 0 => Len(WriteCalls) * WordSize = WholeBlockBytes(codelen)
  /\ pc = "cp_write" =>
       Len(WriteCalls) = blk * WordsPerBlock + widx
C19_Witness ==
  /\ status = 0 /\ codelen = OneBlock + WordSize
  /\ Len(WriteCalls) = (HeaderBlocks + 1) * WordsPerBlock
  /\ WriteCalls[Len(WriteCalls)].arg
       = (HeaderBlocks + 1) * SDCARD_BLOCK_SIZE - WordSize
\* C20: every run in which each call returns eventually reaches a terminal
\* outcome and stays there, and the outcome is exactly one of: returned 2
\* (configuration failure), returned 0 (media update done), returned 3
\* (media update aborted), fatal halt, hand-off; the countdown runs at most
\* CountdownStart + 1 passes and the copy loop at most CopyBlocks(codelen)
\* blocks; main never returns after jump_to.
OneOutcome ==
  /\ ~Terminal => (status = -1 /\ hist.nJump = 0 /\ hist.nFatal = 0)
  /\ pc = "returned" =>
       /\ status \in { 0, 2, 3 } /\ hist.nJump = 0 /\ hist.nFatal = 0
       /\ status = 2 <=> hist.cfgFailed
       /\ status = 0 <=> copyRet = "sectrue"
       /\ status = 3 <=> copyRet = "secfalse"
       /\ status \in { 0, 3 } => (hist.delegated /\ TREZOR_MODEL_T)
  /\ pc = "halted" =>
       /\ status = -1 /\ hist.nJump = 0 /\ hist.nFatal = 1
  /\ pc = "jumped" =>
       /\ status = -1 /\ hist.nJump = 1 /\ hist.nFatal = 0
       /\ copyRet = "none" /\ ~hist.delegated
LoopsBounded ==
  /\ hist.nDelay <= CountdownStart + 1
  /\ hist.nDetect <= CountdownStart + 2
  /\ tick \in -1..CountdownStart
  /\ pc \in CopyPcs => (blk <= CopyBlocks(codelen) /\ widx <= WordsPerBlock)
C20_Terminates ==
  /\ <>Terminal
  /\ [](OneOutcome /\ LoopsBounded)
  /\ [][~Terminal]_vars
C20_Witness ==
  /\ pc = "returned" /\ status = 3 /\ copyRet = "secfalse"
  /\ hist.nDelay = CountdownStart + 1 /\ ~hist.eraseFail
====
